---- MODULE Spec2Model ----
(***************************************************************************)
(* ECU firmware patch engine of nexaven-zorlu.                             *)
(*                                                                         *)
(* The model follows one HTTP tuning request through                       *)
(* server.perform_tuning and AdvancedTuningEngine: the engine's stage      *)
(* pipeline (boost, fuel, timing, torque limiter, rpm limiter, speed       *)
(* limiter, checksum) and then the server's removal steps (DPF, EGR, DTC)  *)
(* and the write of the tuned file.  The tuned file may be tuned again.    *)
(* Further specifications cover a value-transform method called on its     *)
(* own (UnitSpec), compare_files (CompareSpec), tuning requests served    *)
(* side by side by the one engine instance (TaskSpec), remove_dtc_codes    *)
(* called on its own, one loop iteration per step (ScanSpec), and one      *)
(* request under weak fairness with the DTC loop unrolled (LiveSpec).      *)
(*                                                                         *)
(* Scaling.  A firmware image is a sequence of bytes 0..255.  The region   *)
(* table of the source places the maps at 0x20000..0x70800; the model      *)
(* keeps the order, the field widths, the relative position of the rpm and *)
(* speed slots and the region checks of the code, and divides the offsets  *)
(* and sizes so that a whole image has FullLen bytes.                      *)
(*                                                                         *)
(* Floats.  A multiplier m of the stage table is held as the integer       *)
(* 100*m.  PyIntMul computes int(v * m) as CPython does on IEEE-754        *)
(* doubles, including the products that round below the exact integer     *)
(* (int(100 * 1.15) = 114).                                                *)
(***************************************************************************)
EXTENDS Integers, Sequences, FiniteSets, TLC

VARIABLES
    file,           \* bytes of the uploaded file at file_path
    req,            \* the TuningRequest of this call
    pc,             \* position of the call in perform_tuning / the engine
    modified_data,  \* the working buffer (modified_data, then tuned_data)
    modifications,  \* the modification list built so far
    err,            \* the exception that ended the call ("none" if none)
    failed_at,      \* the step that raised it
    report,         \* stage_report as returned by apply_stage_tuning
    tuned_file,     \* the tuned file written under /app/uploads
    backups,        \* the copies kept under /app/uploads/backups, oldest first
    calls,          \* number of tuning calls started so far
    executed,       \* the steps this call has run so far, in order
    engine,         \* the tables of the global AdvancedTuningEngine instance
    tasks,          \* the tuning requests served side by side
    comparisons,    \* what the compare_files calls made so far returned
    scan            \* the loop variables of a remove_dtc_codes call on its own

vars == <<file, req, pc, modified_data, modifications, err, failed_at,
          report, tuned_file, backups, calls, executed, engine, tasks,
          comparisons, scan>>

\* what a tuning call on its own leaves alone
others == <<engine, tasks, comparisons, scan>>

----------------------------------------------------------------------------
(* Bounds of the exploration *)

\* length of a whole image: every region plus a 4 byte trailer
FullLen == 26

\* tuning calls made in a row on one file (the second call tunes the result)
MaxCalls == 2

\* fields in which a request differs from the default request
MaxDiff == 2

\* length of the longest file handed to compare_files
MaxCompareLen == 103

\* tuning requests served side by side
NumTasks == 2

----------------------------------------------------------------------------
(* Static tables of AdvancedTuningEngine.__init__ *)

map_addresses ==
    [ boost_map      |-> [start |-> 2,  size |-> 4],
      fuel_map       |-> [start |-> 6,  size |-> 2],
      timing_map     |-> [start |-> 8,  size |-> 2],
      limiter_map    |-> [start |-> 10, size |-> 4],
      torque_limiter |-> [start |-> 14, size |-> 2],
      dpf_data       |-> [start |-> 16, size |-> 2],
      egr_data       |-> [start |-> 18, size |-> 2],
      dtc_storage    |-> [start |-> 20, size |-> 2] ]

\* multipliers in hundredths: 115 stands for the float 1.15
stage_multipliers ==
    [ stage1 |-> [boost |-> 115, fuel |-> 108, timing |-> 105, torque_limit |-> 118,
                  description |-> "Conservative tune, safe for stock hardware"],
      stage2 |-> [boost |-> 130, fuel |-> 115, timing |-> 110, torque_limit |-> 135,
                  description |-> "Aggressive tune, requires upgraded intercooler"],
      stage3 |-> [boost |-> 150, fuel |-> 125, timing |-> 115, torque_limit |-> 155,
                  description |-> "Race tune, requires turbo upgrade"] ]

dtc_patterns ==
    [ P0420 |-> <<4, 32>>,
      P0300 |-> <<3, 0>>,
      P2002 |-> <<32, 2>>,
      P0401 |-> <<4, 1>> ]

\* the attributes of the instance after __init__
Engine ==
    [ map_addresses |-> map_addresses,
      stage_multipliers |-> stage_multipliers,
      dtc_patterns |-> dtc_patterns ]

----------------------------------------------------------------------------
(* Bytes, slices, struct.pack / struct.unpack *)

(* F(v) with v computed once: TLC binds x to the value of v, where a LET   *)
(* would compute v again at each use when it evaluates ENABLED.            *)
Once(v, F(_)) == CHOOSE r \in { F(x) : x \in {v} } : TRUE

Max(a, b) == IF a >= b THEN a ELSE b

Min(a, b) == IF a <= b THEN a ELSE b

\* d[:-n], empty when the buffer has at most n bytes
DropLast(d, n) == SubSeq(d, 1, Max(Len(d) - n, 0))

\* d[-n:], the whole buffer when it has at most n bytes
TakeLast(d, n) == SubSeq(d, Max(Len(d) - n, 0) + 1, Len(d))

\* d[off:off+len(bs)] = bs for a slice that lies inside the buffer
Put(d, off, bs) ==
    Once(d, LAMBDA x : Once(bs, LAMBDA y :
        [i \in 1..Len(x) |-> IF i > off /\ i <= off + Len(y) THEN y[i - off] ELSE x[i]]))

Zeros(n) == [i \in 1..n |-> 0]

\* struct.unpack('>H', d[off:off+2])[0]
UnpackH(d, off) == d[off + 1] * 256 + d[off + 2]

\* struct.pack('>H', v) raises struct.error outside 0..65535
CanPackH(v) == v >= 0 /\ v <= 65535

\* the two bytes in little-endian order
PackH_LittleEndian(v) == <<v % 256, v \div 256>>

PackH(v) == Once(v, LAMBDA x : <<x \div 256, x % 256>>)

\* struct.unpack('b', d[off:off+1])[0]
Unpackb(d, off) == IF d[off + 1] >= 128 THEN d[off + 1] - 256 ELSE d[off + 1]

\* struct.pack('b', v) raises struct.error outside -128..127
CanPackb(v) == v >= -128 /\ v <= 127

Packb(v) == <<IF v < 0 THEN v + 256 ELSE v>>

----------------------------------------------------------------------------
(* int(original_value * multiplier) on IEEE-754 doubles *)

RECURSIVE FloorLog2(_)
FloorLog2(n) == IF n < 2 THEN 0 ELSE 1 + FloorLog2(n \div 2)

RECURSIVE Pow2(_)
Pow2(e) == IF e = 0 THEN 1 ELSE 2 * Pow2(e - 1)

(* For a >= 0 and m = k/100.  The double nearest to 1.15 lies below 1.15   *)
(* by 0.4 * 2^-52; when a * 1.15 is an integer N (a a multiple of 20) the  *)
(* double product rounds to N only if 0.8 * a <= 2^floor(log2 N), and      *)
(* otherwise to the double just below N, which int() truncates to N - 1.   *)
(* For every other multiplier of the table and for 1.0 the truncation of   *)
(* the double product equals the truncation of the exact product on        *)
(* 0..65535.                                                               *)
PyIntMulAbs(a, k) ==
    LET exact == (a * k) \div 100
    IN  IF k = 115 /\ a > 0 /\ a % 20 = 0
           /\ 4 * a > 5 * Pow2(FloorLog2((a * 23) \div 20))
        THEN exact - 1
        ELSE exact

\* int() truncates toward zero
PyIntMul(v, k) == IF v >= 0 THEN PyIntMulAbs(v, k) ELSE 0 - PyIntMulAbs(0 - v, k)

(* round((new - original) / original * 100, 2), in hundredths of a percent *)
(* (1500 stands for 15.0), for original > 0 and new >= original            *)
ChangePercent(original_value, new_value) ==
    LET q == (new_value - original_value) * 10000
        f == q \div original_value
        r == q - f * original_value
    IN  IF 2 * r > original_value \/ (2 * r = original_value /\ f % 2 = 1)
        THEN f + 1
        ELSE f

----------------------------------------------------------------------------
(* Steps of the engine.  A step returns the buffer it leaves, the          *)
(* modifications it made and the exception it raised ("none" if none).     *)
(* A modification's address is the byte offset (the code formats it with   *)
(* hex()).                                                                 *)

StepResult(d, mods, e) == [data |-> d, mods |-> mods, err |-> e]

\* the clamp left out: the product is packed as it is
ClampH_Unclamped(v) == v

\* new_value after "if new_value > 65535: new_value = 65535"
ClampH(v) == IF v > 65535 THEN 65535 ELSE v

\* new_value after the two clamps of _modify_timing_map
Clampb(v) ==
    LET hi == IF v > 127 THEN 127 ELSE v
    IN  IF hi < -128 THEN -128 ELSE hi

(* The loop of _modify_boost_map from offset on.  The field is written     *)
(* before the record is built, so a field holding 0 is written and then    *)
(* the division by original_value raises ZeroDivisionError.                *)
RECURSIVE BoostLoop(_, _, _, _, _)
BoostLoop(d, mods, offset, stop, multiplier) ==
    IF offset >= stop \/ offset + 1 >= Len(d)
    THEN StepResult(d, mods, "none")
    ELSE Once(UnpackH(d, offset), LAMBDA original_value :
         Once(ClampH(PyIntMul(original_value, multiplier)), LAMBDA new_value :
             IF ~CanPackH(new_value)
             THEN StepResult(d, mods, "struct.error")
             ELSE IF original_value = 0
             THEN StepResult(Put(d, offset, PackH(new_value)), mods, "ZeroDivisionError")
             ELSE Once(Put(d, offset, PackH(new_value)), LAMBDA data :
                  BoostLoop(data,
                            Append(mods, [address |-> offset,
                                          type |-> "boost_pressure",
                                          original |-> original_value,
                                          modified |-> new_value,
                                          change_percent |->
                                              ChangePercent(original_value, new_value)]),
                            offset + 2, stop, multiplier))))

_modify_boost_map(d, multiplier) ==
    LET start == map_addresses.boost_map.start
        size == map_addresses.boost_map.size
    IN  IF start + size > Len(d)
        THEN StepResult(d, <<>>, "none")
        ELSE BoostLoop(d, <<>>, start, start + size, multiplier)

(* The loop shared by _modify_fuel_map and _remove_torque_limiter: the     *)
(* same 16-bit transform, a record without change_percent.                 *)
RECURSIVE WordLoop(_, _, _, _, _, _)
WordLoop(d, mods, offset, stop, multiplier, type) ==
    IF offset >= stop \/ offset + 1 >= Len(d)
    THEN StepResult(d, mods, "none")
    ELSE Once(UnpackH(d, offset), LAMBDA original_value :
         Once(ClampH(PyIntMul(original_value, multiplier)), LAMBDA new_value :
             IF ~CanPackH(new_value)
             THEN StepResult(d, mods, "struct.error")
             ELSE Once(Put(d, offset, PackH(new_value)), LAMBDA data :
                  WordLoop(data,
                           Append(mods, [address |-> offset,
                                         type |-> type,
                                         original |-> original_value,
                                         modified |-> new_value]),
                           offset + 2, stop, multiplier, type))))

_modify_fuel_map(d, multiplier) ==
    LET start == map_addresses.fuel_map.start
        size == map_addresses.fuel_map.size
    IN  IF start + size > Len(d)
        THEN StepResult(d, <<>>, "none")
        ELSE WordLoop(d, <<>>, start, start + size, multiplier, "fuel_injection")

RECURSIVE TimingLoop(_, _, _, _, _)
TimingLoop(d, mods, offset, stop, multiplier) ==
    IF offset >= stop \/ offset >= Len(d)
    THEN StepResult(d, mods, "none")
    ELSE Once(Unpackb(d, offset), LAMBDA original_value :
         Once(Clampb(PyIntMul(original_value, multiplier)), LAMBDA new_value :
             IF ~CanPackb(new_value)
             THEN StepResult(d, mods, "struct.error")
             ELSE Once(Put(d, offset, Packb(new_value)), LAMBDA data :
                  TimingLoop(data,
                             Append(mods, [address |-> offset,
                                           type |-> "ignition_timing",
                                           original |-> original_value,
                                           modified |-> new_value]),
                             offset + 1, stop, multiplier))))

_modify_timing_map(d, multiplier) ==
    LET start == map_addresses.timing_map.start
        size == map_addresses.timing_map.size
    IN  IF start + size > Len(d)
        THEN StepResult(d, <<>>, "none")
        ELSE TimingLoop(d, <<>>, start, start + size, multiplier)

_remove_torque_limiter(d, multiplier) ==
    LET start == map_addresses.torque_limiter.start
        size == map_addresses.torque_limiter.size
    IN  IF start + size > Len(d)
        THEN StepResult(d, <<>>, "none")
        ELSE WordLoop(d, <<>>, start, start + size, multiplier, "torque_limiter")

\* the rpm limiter is the first 2 bytes of limiter_map
_modify_rpm_limiter(d, new_rpm) ==
    LET start == map_addresses.limiter_map.start
    IN  IF start + 2 <= Len(d)
        THEN IF ~CanPackH(new_rpm)
             THEN StepResult(d, <<>>, "struct.error")
             ELSE StepResult(Put(d, start, PackH(new_rpm)),
                             << [address |-> start,
                                 type |-> "rpm_limiter",
                                 original |-> UnpackH(d, start),
                                 modified |-> new_rpm] >>,
                             "none")
        ELSE StepResult(d, <<>>, "none")

\* the byte after the speed limiter is set as well
_remove_speed_limiter_Wide(d) ==
    LET start == map_addresses.limiter_map.start + 2
    IN  IF start + 1 <= Len(d)
        THEN StepResult(Put(d, start, <<255, 255>>),
                        << [address |-> start,
                            type |-> "speed_limiter",
                            original |-> d[start + 1],
                            modified |-> 255] >>,
                        "none")
        ELSE StepResult(d, <<>>, "none")

\* the speed limiter is the byte after the rpm limiter
_remove_speed_limiter(d) ==
    LET start == map_addresses.limiter_map.start + 2
    IN  IF start + 1 <= Len(d)
        THEN StepResult(Put(d, start, <<255>>),
                        << [address |-> start,
                            type |-> "speed_limiter",
                            original |-> d[start + 1],
                            modified |-> 255] >>,
                        "none")
        ELSE StepResult(d, <<>>, "none")

\* the last byte of the region is left out
remove_dpf_ShortFill(d) ==
    LET start == map_addresses.dpf_data.start
        size == map_addresses.dpf_data.size
    IN  IF start + size > Len(d)
        THEN StepResult(d, <<>>, "none")
        ELSE StepResult(Put(d, start, Zeros(size - 1)),
                        << [address |-> start,
                            type |-> "dpf_removal",
                            bytes_modified |-> size] >>,
                        "none")

remove_dpf(d) ==
    LET start == map_addresses.dpf_data.start
        size == map_addresses.dpf_data.size
    IN  IF start + size > Len(d)
        THEN StepResult(d, <<>>, "none")
        ELSE StepResult(Put(d, start, Zeros(size)),
                        << [address |-> start,
                            type |-> "dpf_removal",
                            bytes_modified |-> size] >>,
                        "none")

remove_egr(d) ==
    LET start == map_addresses.egr_data.start
        size == map_addresses.egr_data.size
    IN  IF start + size > Len(d)
        THEN StepResult(d, <<>>, "none")
        ELSE StepResult(Put(d, start, Zeros(size)),
                        << [address |-> start,
                            type |-> "egr_removal",
                            bytes_modified |-> size] >>,
                        "none")

----------------------------------------------------------------------------
(* remove_dtc_codes *)

MatchAt(d, pattern, i) ==
    /\ i + Len(pattern) <= Len(d)
    /\ \A j \in 1..Len(pattern) : d[i + j] = pattern[j]

\* the search starts at 0 whatever the cursor is
Find_FromStart(d, pattern, offset) ==
    LET hits == {k \in 0 .. (Len(d) - Len(pattern)) : MatchAt(d, pattern, k)}
    IN  IF hits = {} THEN -1 ELSE CHOOSE k \in hits : \A j \in hits : k <= j

\* d.find(pattern, offset): the first index >= offset of the pattern, or -1
RECURSIVE Find(_, _, _)
Find(d, pattern, offset) ==
    IF offset + Len(pattern) > Len(d) THEN -1
    ELSE IF MatchAt(d, pattern, offset) THEN offset
    ELSE Find(d, pattern, offset + 1)

\* the while loop over one pattern, from cursor offset on
RECURSIVE ScanLoop(_, _, _, _, _)
ScanLoop(d, mods, offset, pattern, dtc_code) ==
    IF ~(offset < Len(d))
    THEN StepResult(d, mods, "none")
    ELSE LET index == Find(d, pattern, offset)
         IN  IF index = -1
             THEN StepResult(d, mods, "none")
             ELSE ScanLoop(Put(d, index, Zeros(Len(pattern))),
                           Append(mods, [address |-> index,
                                         type |-> "dtc_removal",
                                         code |-> dtc_code]),
                           index + Len(pattern), pattern, dtc_code)

\* the for loop over dtc_list, from its i-th code on
RECURSIVE DtcLoop(_, _, _, _)
DtcLoop(d, mods, dtc_list, i) ==
    IF i > Len(dtc_list)
    THEN StepResult(d, mods, "none")
    ELSE IF dtc_list[i] \in DOMAIN dtc_patterns
    THEN LET r == ScanLoop(d, mods, 0, dtc_patterns[dtc_list[i]], dtc_list[i])
         IN  DtcLoop(r.data, r.mods, dtc_list, i + 1)
    ELSE DtcLoop(d, mods, dtc_list, i + 1)

\* a list that matches nowhere is reported as an error
remove_dtc_codes_Strict(d, dtc_list) ==
    LET r == DtcLoop(d, <<>>, dtc_list, 1)
    IN  IF r.mods = <<>> THEN StepResult(d, <<>>, "PatternNotFound") ELSE r

remove_dtc_codes(d, dtc_list) == DtcLoop(d, <<>>, dtc_list, 1)

----------------------------------------------------------------------------
(* _update_checksum: zlib.crc32 and the 16-bit byte sum *)

\* bitwise exclusive or of two naturals below 2^n, bit by bit
RECURSIVE XorBits(_, _, _)
XorBits(a, b, n) ==
    IF n = 0 THEN 0
    ELSE ((a + b) % 2) + 2 * XorBits(a \div 2, b \div 2, n - 1)

\* the exclusive or of two hexadecimal digits
XorNibble == [a \in 0..15 |-> [b \in 0..15 |-> XorBits(a, b, 4)]]

\* bitwise exclusive or of two naturals below 2^n, n a multiple of 4, digit by digit
RECURSIVE Xor(_, _, _)
Xor(a, b, n) ==
    IF n = 0 THEN 0
    ELSE XorNibble[a % 16][b % 16] + 16 * Xor(a \div 16, b \div 16, n - 4)

(* The 32-bit register is held as two 16-bit halves.  One step of the      *)
(* reflected CRC-32: shift right by one, and exclusive-or the polynomial   *)
(* 0xEDB88320 when the bit shifted out was 1.                              *)
CrcShift(c) ==
    LET hi == c.hi \div 2
        lo == (c.lo \div 2) + (c.hi % 2) * 32768
    IN  IF c.lo % 2 = 1
        THEN [hi |-> Xor(hi, 60856, 16), lo |-> Xor(lo, 33568, 16)]
        ELSE [hi |-> hi, lo |-> lo]

\* n shifts; the test on s.lo makes TLC compute the register at each shift
RECURSIVE CrcBits(_, _)
CrcBits(c, n) ==
    IF n = 0 THEN c
    ELSE LET s == CrcShift(c)
         IN  IF s.lo >= 0 THEN CrcBits(s, n - 1) ELSE s

\* the register after the eight shifts of a byte b: the table zlib looks up
CrcTable == [b \in 0..255 |-> CrcBits([hi |-> 0, lo |-> b], 8)]

(* A byte b is fed to the register c: the low byte of the register         *)
(* exclusive-or the byte selects the table entry, which is exclusive-ored  *)
(* to the register shifted right by eight.                                 *)
CrcByte(c, b) ==
    [hi |-> Xor(c.hi \div 256, CrcTable[Xor(c.lo % 256, b, 8)].hi, 16),
     lo |-> Xor((c.lo \div 256) + (c.hi % 256) * 256,
                CrcTable[Xor(c.lo % 256, b, 8)].lo, 16)]

\* the bytes d[i..] are fed to the register
RECURSIVE CrcBytes(_, _, _)
CrcBytes(c, d, i) ==
    IF i > Len(d) THEN c
    ELSE CrcBytes(Once(c, LAMBDA x : CrcByte(x, d[i])), d, i + 1)

\* zlib.crc32(d) as the halves of the 32-bit value; c is the register at the end
crc32(d) ==
    Once(CrcBytes([hi |-> 65535, lo |-> 65535], d, 1), LAMBDA c :
        [hi |-> 65535 - c.hi, lo |-> 65535 - c.lo])

\* struct.pack('>I', crc)
PackI(c) == Once(c, LAMBDA x : PackH(x.hi) \o PackH(x.lo))

RECURSIVE SumBytes(_, _)
SumBytes(d, i) == IF i > Len(d) THEN 0 ELSE d[i] + SumBytes(d, i + 1)

\* sum(d) & 0xFFFF
ByteSum16(d) == Once(d, LAMBDA x : SumBytes(x, 1) % 65536)

\* the byte sum is stored first and the CRC over it
_update_checksum_SumFirst(d) ==
    Once(d, LAMBDA x :
    Once(DropLast(x, 2) \o PackH(ByteSum16(DropLast(x, 2))), LAMBDA d1 :
        DropLast(d1, 4) \o PackI(crc32(DropLast(d1, 4)))))

(* data[-4:] = pack(crc) and data[-2:] = pack(byte_sum) are slice          *)
(* assignments: on a buffer shorter than the slice they replace what there *)
(* is by the whole packed value, so the buffer grows.                      *)
(* d1 is the buffer after the first assignment.                            *)
_update_checksum(d) ==
    Once(d, LAMBDA x :
    Once(DropLast(x, 4) \o PackI(crc32(DropLast(x, 4))), LAMBDA d1 :
        DropLast(d1, 2) \o PackH(ByteSum16(DropLast(d1, 2)))))

----------------------------------------------------------------------------
(* Requests and images the calls are made with *)

\* custom_parameters.get(key, default)
DictGet(custom_parameters, key, default) ==
    IF key \in custom_parameters.keys THEN custom_parameters[key] ELSE default

\* the options dict perform_tuning hands to apply_stage_tuning
Options(r) ==
    [ boost |-> TRUE,
      fuel |-> TRUE,
      timing |-> TRUE,
      remove_torque_limiter |->
          DictGet(r.custom_parameters, "remove_torque_limiter", TRUE),
      rpm_limiter |-> DictGet(r.custom_parameters, "rpm_limiter", 7000),
      remove_speed_limiter |->
          DictGet(r.custom_parameters, "remove_speed_limiter", TRUE) ]

\* a dict with the given keys; present is FALSE for custom_parameters = None
Custom(present, keys, torque, rpm, speed) ==
    [ present |-> present, keys |-> keys,
      remove_torque_limiter |-> torque,
      rpm_limiter |-> rpm,
      remove_speed_limiter |-> speed ]

AllKeys == {"remove_torque_limiter", "rpm_limiter", "remove_speed_limiter"}

EmptyCustom == Custom(TRUE, {}, TRUE, 7000, TRUE)

Customs ==
    { Custom(FALSE, {}, TRUE, 7000, TRUE),
      EmptyCustom,
      Custom(TRUE, AllKeys, FALSE, 0, FALSE),
      Custom(TRUE, AllKeys, FALSE, 6500, TRUE),
      Custom(TRUE, {"rpm_limiter"}, TRUE, 65535, TRUE),
      Custom(TRUE, {"rpm_limiter"}, TRUE, 65536, TRUE) }

\* "None" stands for a request without stage, "stage4" is not in the table
Stages == {"stage1", "stage2", "stage3", "stage4", "None"}

DtcLists ==
    { <<>>, <<"P0420">>, <<"P0300">>, <<"P0420", "P0300">>, <<"P1234">> }

AllRequests ==
    [ stage : Stages,
      remove_dtc_codes : DtcLists,
      remove_dpf : BOOLEAN,
      remove_egr : BOOLEAN,
      remove_adblue : BOOLEAN,
      custom_parameters : Customs ]

DefaultRequest ==
    [ stage |-> "stage1",
      remove_dtc_codes |-> <<>>,
      remove_dpf |-> FALSE,
      remove_egr |-> FALSE,
      remove_adblue |-> FALSE,
      custom_parameters |-> EmptyCustom ]

RequestFields ==
    {"stage", "remove_dtc_codes", "remove_dpf", "remove_egr", "remove_adblue",
     "custom_parameters"}

\* the requests that differ from the default one in at most MaxDiff fields
Requests ==
    { r \in AllRequests :
        Cardinality({f \in RequestFields : r[f] # DefaultRequest[f]}) <= MaxDiff }

\* an image of n bytes: fill everywhere, the bytes of pair at offset off
Image(n, fill, off, pair) ==
    [i \in 1..n |-> IF i > off /\ i <= off + Len(pair) THEN pair[i - off] ELSE fill]

\* empty, shorter than the trailer, ending inside the fuel region, inside
\* the limiter region, with the trailer over the DPF region, and whole
ImageLens == {0, 3, 7, 12, 18, FullLen}

\* fill byte, offset and bytes written over the fill: the field values the
\* transforms, the clamps and the scanner differ on
Contents ==
    { <<0, 0, <<>>>>,             \* all fields 0
      <<16, 0, <<>>>>,            \* all 16-bit fields 0x1010
      <<255, 0, <<>>>>,           \* all 16-bit fields 65535, timing -1
      <<16, 2, <<16, 0>>>>,       \* first boost field 4096
      <<16, 2, <<0, 100>>>>,      \* first boost field 100
      <<16, 2, <<4, 32>>>>,       \* the P0420 pattern in a boost field
      <<16, 4, <<0, 0>>>>,        \* second boost field 0
      <<16, 2, <<3, 151>>>>,      \* first boost field 919: 1056 = 04 20 under stage1
      <<255, 8, <<128, 127>>>>,   \* timing fields -128 and 127
      <<16, 16, <<4, 32>>>>,      \* the P0420 pattern in the DPF region
      <<16, 21, <<3, 4, 32>>>> }  \* P0420 after a byte 03, next to the trailer

Images ==
    { Image(n, c[1], c[2], c[3]) : n \in ImageLens, c \in Contents }

NoFile == [written |-> FALSE, data |-> <<>>]

NoReport ==
    [returned |-> FALSE, stage |-> "None", original_size |-> 0, modified_size |-> 0,
     checksum_updated |-> FALSE, description |-> ""]

\* no remove_dtc_codes call on its own is under way
NoScan == [dtc_code |-> 0, offset |-> 0]

----------------------------------------------------------------------------
(* The call *)

Init ==
    /\ file \in Images
    /\ req \in Requests
    /\ pc = "start"
    /\ modified_data = <<>>
    /\ modifications = <<>>
    /\ err = "none"
    /\ failed_at = "none"
    /\ report = NoReport
    /\ tuned_file = NoFile
    /\ backups = <<>>
    /\ calls = 1
    /\ executed = <<>>
    /\ engine = Engine
    /\ scan = NoScan
    /\ tasks = <<>>
    /\ comparisons = <<>>

\* the handler that writes the working buffer out before it answers
Raise_WritesBuffer(e, step, d) ==
    /\ pc' = "failed"
    /\ err' = e
    /\ failed_at' = step
    /\ modified_data' = d
    /\ tuned_file' = [written |-> TRUE, data |-> d]
    /\ UNCHANGED <<file, req, modifications, report, backups, calls, executed, others>>

(* except Exception of perform_tuning: the error is logged and the request *)
(* ends with HTTP 500; d is the working buffer the failed step leaves.     *)
Raise(e, step, d) ==
    /\ pc' = "failed"
    /\ err' = e
    /\ failed_at' = step
    /\ modified_data' = d
    /\ UNCHANGED <<file, req, modifications, report, tuned_file, backups, calls,
                   executed, others>>

(* A step of the pipeline ends: its result r is taken over and next        *)
(* follows (x is r, computed once).                                        *)
Finish(r, step, next) ==
    \E x \in {r} :
        IF x.err = "none"
        THEN /\ pc' = next
             /\ modified_data' = x.data
             /\ modifications' = modifications \o x.mods
             /\ executed' = Append(executed, step)
             /\ UNCHANGED <<file, req, err, failed_at, report, tuned_file, backups, calls,
                            others>>
        ELSE Raise(x.err, step, x.data)

Skip(next) ==
    /\ pc' = next
    /\ UNCHANGED <<file, req, modified_data, modifications, err, failed_at,
                   report, tuned_file, backups, calls, executed, others>>

\* Python truthiness of an integer option
Truthy(v) == v # 0

(* perform_tuning builds the options; custom_parameters.get on None raises *)
(* AttributeError before the engine is called.                             *)
PerformTuning ==
    /\ pc = "start"
    /\ IF req.custom_parameters.present
       THEN Skip("engine")
       ELSE Raise("AttributeError", "start", modified_data)

\* the stage is looked up only after a stage-independent step has written
ApplyStageTuning_LateCheck ==
    /\ pc = "engine"
    /\ IF req.stage \notin DOMAIN stage_multipliers
       THEN Raise("ValueError", "engine", _remove_speed_limiter(file).data)
       ELSE /\ pc' = "boost"
            /\ modified_data' = file
            /\ modifications' = <<>>
            /\ UNCHANGED <<file, req, err, failed_at, report, tuned_file, backups, calls,
                           executed, others>>

\* apply_stage_tuning reads the file, copies it and looks the stage up
ApplyStageTuning ==
    /\ pc = "engine"
    /\ IF req.stage \notin DOMAIN stage_multipliers
       THEN Raise("ValueError", "engine", file)
       ELSE /\ pc' = "boost"
            /\ modified_data' = file
            /\ modifications' = <<>>
            /\ UNCHANGED <<file, req, err, failed_at, report, tuned_file, backups, calls,
                           executed, others>>

multipliers == stage_multipliers[req.stage]

ModifyBoost ==
    /\ pc = "boost"
    /\ IF Options(req).boost
       THEN Finish(_modify_boost_map(modified_data, multipliers.boost), "boost", "fuel")
       ELSE Skip("fuel")

ModifyFuel ==
    /\ pc = "fuel"
    /\ IF Options(req).fuel
       THEN Finish(_modify_fuel_map(modified_data, multipliers.fuel), "fuel", "timing")
       ELSE Skip("timing")

ModifyTiming ==
    /\ pc = "timing"
    /\ IF Options(req).timing
       THEN Finish(_modify_timing_map(modified_data, multipliers.timing), "timing", "torque")
       ELSE Skip("torque")

RemoveTorqueLimiter ==
    /\ pc = "torque"
    /\ IF Options(req).remove_torque_limiter
       THEN Finish(_remove_torque_limiter(modified_data, multipliers.torque_limit),
                   "torque", "rpm")
       ELSE Skip("rpm")

ModifyRpmLimiter ==
    /\ pc = "rpm"
    /\ IF Truthy(Options(req).rpm_limiter)
       THEN Finish(_modify_rpm_limiter(modified_data, Options(req).rpm_limiter),
                   "rpm", "speed")
       ELSE Skip("speed")

RemoveSpeedLimiter ==
    /\ pc = "speed"
    /\ IF Options(req).remove_speed_limiter
       THEN Finish(_remove_speed_limiter(modified_data), "speed", "checksum")
       ELSE Skip("checksum")

(* The checksum step and the return of (bytes, report) to perform_tuning.  *)
(* The report's key "modifications" holds the very list perform_tuning     *)
(* goes on extending: it is the variable modifications.                    *)
UpdateChecksum ==
    /\ pc = "checksum"
    /\ pc' = "dpf"
    /\ modified_data' = _update_checksum(modified_data)
    /\ report' = [returned |-> TRUE,
                  stage |-> req.stage,
                  original_size |-> Len(file),
                  modified_size |-> Len(modified_data'),
                  checksum_updated |-> TRUE,
                  description |-> multipliers.description]
    /\ executed' = Append(executed, "checksum")
    /\ UNCHANGED <<file, req, modifications, err, failed_at, tuned_file, backups, calls,
                   others>>

RemoveDpf ==
    /\ pc = "dpf"
    /\ IF req.remove_dpf
       THEN Finish(remove_dpf(modified_data), "dpf", "egr")
       ELSE Skip("egr")

RemoveEgr ==
    /\ pc = "egr"
    /\ IF req.remove_egr
       THEN Finish(remove_egr(modified_data), "egr", "dtc")
       ELSE Skip("dtc")

\* the codes are looked for in the file as it was uploaded
RemoveDtcCodes_FromSnapshot ==
    /\ pc = "dtc"
    /\ IF req.remove_dtc_codes # <<>>
       THEN Finish(remove_dtc_codes(file, req.remove_dtc_codes), "dtc", "write")
       ELSE Skip("write")

RemoveDtcCodes ==
    /\ pc = "dtc"
    /\ IF req.remove_dtc_codes # <<>>
       THEN Finish(remove_dtc_codes(modified_data, req.remove_dtc_codes), "dtc", "write")
       ELSE Skip("write")

\* the tuned file is written, the uploaded file is copied to the backups
WriteTuned ==
    /\ pc = "write"
    /\ pc' = "done"
    /\ tuned_file' = [written |-> TRUE, data |-> modified_data]
    /\ backups' = Append(backups, file)
    /\ UNCHANGED <<file, req, modified_data, modifications, err, failed_at, report, calls,
                   executed, others>>

\* the tuned file, stored as a new ECU file, is tuned with the same request
TuneAgain ==
    /\ pc = "done"
    /\ calls < MaxCalls
    /\ calls' = calls + 1
    /\ file' = tuned_file.data
    /\ pc' = "start"
    /\ modified_data' = <<>>
    /\ modifications' = <<>>
    /\ report' = NoReport
    /\ tuned_file' = NoFile
    /\ executed' = <<>>
    /\ UNCHANGED <<req, err, failed_at, backups, others>>

Next ==
    \/ PerformTuning
    \/ ApplyStageTuning
    \/ ModifyBoost
    \/ ModifyFuel
    \/ ModifyTiming
    \/ RemoveTorqueLimiter
    \/ ModifyRpmLimiter
    \/ RemoveSpeedLimiter
    \/ UpdateChecksum
    \/ RemoveDpf
    \/ RemoveEgr
    \/ RemoveDtcCodes
    \/ WriteTuned
    \/ TuneAgain

Spec == Init /\ [][Next]_vars

----------------------------------------------------------------------------
(* A value-transform step called on its own, with any multiplier: the      *)
(* methods take the buffer and the multiplier as arguments.  Here req      *)
(* holds the arguments of the call and file the buffer before it.          *)

\* 1.0 and the multipliers of the stage table
UnitMultipliers ==
    {100} \cup UNION { { stage_multipliers[st].boost, stage_multipliers[st].fuel,
                         stage_multipliers[st].timing,
                         stage_multipliers[st].torque_limit } :
                       st \in DOMAIN stage_multipliers }

UnitSteps == {"boost", "fuel", "timing", "torque"}

UnitInit ==
    /\ file \in Images
    /\ req \in [step : UnitSteps, multiplier : UnitMultipliers]
    /\ pc = "call"
    /\ modified_data = file
    /\ modifications = <<>>
    /\ err = "none"
    /\ failed_at = "none"
    /\ report = NoReport
    /\ tuned_file = NoFile
    /\ backups = <<>>
    /\ calls = 1
    /\ executed = <<>>
    /\ engine = Engine
    /\ scan = NoScan
    /\ tasks = <<>>
    /\ comparisons = <<>>

UnitResult ==
    CASE req.step = "boost" -> _modify_boost_map(modified_data, req.multiplier)
      [] req.step = "fuel" -> _modify_fuel_map(modified_data, req.multiplier)
      [] req.step = "timing" -> _modify_timing_map(modified_data, req.multiplier)
      [] req.step = "torque" -> _remove_torque_limiter(modified_data, req.multiplier)

\* the call returns its modification list or raises; the buffer is changed in place
UnitCall ==
    /\ pc = "call"
    /\ pc' = IF UnitResult.err = "none" THEN "returned" ELSE "raised"
    /\ modified_data' = UnitResult.data
    /\ modifications' = UnitResult.mods
    /\ err' = UnitResult.err
    /\ failed_at' = IF UnitResult.err = "none" THEN "none" ELSE req.step
    /\ executed' = IF UnitResult.err = "none" THEN <<req.step>> ELSE <<>>
    /\ UNCHANGED <<file, req, report, tuned_file, backups, calls, others>>

UnitNext == UnitCall

UnitSpec == UnitInit /\ [][UnitNext]_vars

\* the region a step of the unit calls works on
UnitRegion ==
    CASE req.step = "boost" -> map_addresses.boost_map
      [] req.step = "fuel" -> map_addresses.fuel_map
      [] req.step = "timing" -> map_addresses.timing_map
      [] req.step = "torque" -> map_addresses.torque_limiter

----------------------------------------------------------------------------
(* compare_files: the files at original_path and tuned_path are read and   *)
(* compared byte by byte.  Here file is the file at original_path and      *)
(* tuned_file the file at tuned_path.                                      *)

HexDigit ==
    <<"0", "1", "2", "3", "4", "5", "6", "7", "8", "9", "a", "b", "c", "d", "e", "f">>

RECURSIVE HexDigits(_)
HexDigits(n) ==
    IF n < 16 THEN <<HexDigit[n + 1]>>
    ELSE Append(HexDigits(n \div 16), HexDigit[(n % 16) + 1])

\* hex(n) for n >= 0, as the sequence of its characters
hex(n) == <<"0", "x">> \o HexDigits(n)

\* the two bytes are swapped in the entry
DiffEntry_Swapped(i, b1, b2) ==
    [offset |-> hex(i), original |-> hex(b2), tuned |-> hex(b1)]

\* the dict appended for index i
DiffEntry(i, b1, b2) ==
    [offset |-> hex(i), original |-> hex(b1), tuned |-> hex(b2)]

\* only a byte that grew counts
Differs_Grew(b1, b2) == b1 < b2

\* if b1 != b2
Differs(b1, b2) == b1 # b2

(* The list the loop over enumerate(zip(original, tuned)) builds for the   *)
(* indices lo .. hi-1: the entries of the differing indices in ascending   *)
(* order.  The range is split in halves to keep the evaluation shallow.    *)
RECURSIVE DiffLoop(_, _, _, _)
DiffLoop(original, tuned, lo, hi) ==
    IF hi <= lo THEN <<>>
    ELSE IF hi = lo + 1
    THEN IF Differs(original[lo + 1], tuned[lo + 1])
         THEN <<DiffEntry(lo, original[lo + 1], tuned[lo + 1])>>
         ELSE <<>>
    ELSE LET mid == (lo + hi) \div 2
         IN  DiffLoop(original, tuned, lo, mid) \o DiffLoop(original, tuned, mid, hi)

\* the differences list after the loop
Differences(original, tuned) ==
    DiffLoop(original, tuned, 0, Min(Len(original), Len(tuned)))

\* the slice is left out
First_Uncut(differences, n) == differences

\* differences[:n]
First(differences, n) == SubSeq(differences, 1, Min(Len(differences), n))

(* round(count / total * 100, 2), in hundredths of a percent, for          *)
(* total > 0: the quotient rounded to the nearest, a tie to the even one.  *)
(* This is the value CPython computes for every total below 160.           *)
DifferencePercentage(count, total) ==
    LET q == count * 10000
        f == q \div total
        r == q - f * total
    IN  IF 2 * r > total \/ (2 * r = total /\ f % 2 = 1) THEN f + 1 ELSE f

\* an empty original is answered like any other
compare_files_Guarded(original, tuned) ==
    LET differences == Differences(original, tuned)
    IN  [ returned |-> TRUE,
          err |-> "none",
          total_bytes |-> Len(original),
          differences_count |-> Len(differences),
          difference_percentage |->
              IF Len(original) = 0 THEN 0
              ELSE DifferencePercentage(Len(differences), Len(original)),
          differences |-> First(differences, 100) ]

(* The dict compare_files returns.  The division by len(original) raises   *)
(* ZeroDivisionError for an empty original file, and nothing is returned.  *)
compare_files(original, tuned) ==
    LET differences == Differences(original, tuned)
    IN  IF Len(original) = 0
        THEN [returned |-> FALSE, err |-> "ZeroDivisionError"]
        ELSE [ returned |-> TRUE,
               err |-> "none",
               total_bytes |-> Len(original),
               differences_count |-> Len(differences),
               difference_percentage |->
                   DifferencePercentage(Len(differences), Len(original)),
               differences |-> First(differences, 100) ]

\* file lengths around the cap of the differences list
CompareLens == {0, 1, 2, 100, 101, MaxCompareLen}

\* byte i (from 0) of a file of each kind
CompareKinds ==
    [ zeros |-> [i \in 0..MaxCompareLen |-> 0],
      ones  |-> [i \in 0..MaxCompareLen |-> 255],
      ramp  |-> [i \in 0..MaxCompareLen |-> i % 256],
      odd   |-> [i \in 0..MaxCompareLen |-> i % 2],
      even  |-> [i \in 0..MaxCompareLen |-> (i + 1) % 2] ]

CompareImages ==
    { [i \in 1..n |-> CompareKinds[k][i - 1]] : n \in CompareLens, k \in DOMAIN CompareKinds }

CompareInit ==
    /\ file \in CompareImages
    /\ tuned_file \in [written : {TRUE}, data : CompareImages]
    /\ pc = "compare"
    /\ req = DefaultRequest
    /\ modified_data = <<>>
    /\ modifications = <<>>
    /\ err = "none"
    /\ failed_at = "none"
    /\ report = NoReport
    /\ backups = <<>>
    /\ calls = 1
    /\ executed = <<>>
    /\ engine = Engine
    /\ scan = NoScan
    /\ tasks = <<>>
    /\ comparisons = <<>>

\* compare_files(original_path, tuned_path)
CompareFiles ==
    /\ pc = "compare"
    /\ pc' = "compared"
    /\ comparisons' = Append(comparisons, compare_files(file, tuned_file.data))
    /\ UNCHANGED <<file, req, modified_data, modifications, err, failed_at, report,
                   tuned_file, backups, calls, executed, engine, tasks, scan>>

\* the same call with the two paths exchanged
CompareSwapped ==
    /\ pc = "compared"
    /\ pc' = "swapped"
    /\ comparisons' = Append(comparisons, compare_files(tuned_file.data, file))
    /\ UNCHANGED <<file, req, modified_data, modifications, err, failed_at, report,
                   tuned_file, backups, calls, executed, engine, tasks, scan>>

CompareNext ==
    \/ CompareFiles
    \/ CompareSwapped

CompareSpec == CompareInit /\ [][CompareNext]_vars

----------------------------------------------------------------------------
(* Tuning requests served side by side.  perform_tuning is a coroutine of  *)
(* the one event loop; a request can give way to another one only at an    *)
(* await, so a task moves from one await of the try block to the next in   *)
(* one step.  All tasks call the one global engine instance; each has its  *)
(* own uploaded file, its own buffers and its own tuned file.              *)

\* a step that was not asked for
NoStep(d) == StepResult(d, <<>>, "none")

\* the step that gave s follows the steps that gave r; an exception ends the call
AndThen(r, s) ==
    IF r.err # "none" THEN r ELSE StepResult(s.data, r.mods \o s.mods, s.err)

\* the k-th optional step of apply_stage_tuning on the buffer d
EngineStep(k, d, options, m) ==
    CASE k = 1 -> IF options.boost THEN _modify_boost_map(d, m.boost) ELSE NoStep(d)
      [] k = 2 -> IF options.fuel THEN _modify_fuel_map(d, m.fuel) ELSE NoStep(d)
      [] k = 3 -> IF options.timing THEN _modify_timing_map(d, m.timing) ELSE NoStep(d)
      [] k = 4 -> IF options.remove_torque_limiter
                  THEN _remove_torque_limiter(d, m.torque_limit) ELSE NoStep(d)
      [] k = 5 -> IF Truthy(options.rpm_limiter)
                  THEN _modify_rpm_limiter(d, options.rpm_limiter) ELSE NoStep(d)
      [] k = 6 -> IF options.remove_speed_limiter
                  THEN _remove_speed_limiter(d) ELSE NoStep(d)

\* the steps from the k-th on, on the one working buffer; s is computed at each step
RECURSIVE EngineSteps(_, _, _, _)
EngineSteps(r, k, options, m) ==
    IF r.err # "none" \/ k > 6 THEN r
    ELSE LET s == AndThen(r, EngineStep(k, r.data, options, m))
         IN  IF Len(s.mods) >= 0 THEN EngineSteps(s, k + 1, options, m) ELSE s

(* apply_stage_tuning as one call: the stage lookup in the table of the    *)
(* instance, the six optional steps and the checksum.  The result holds    *)
(* the bytes and the modifications returned.                               *)
apply_stage_tuning(d, stage, options, table) ==
    IF stage \notin DOMAIN table
    THEN StepResult(d, <<>>, "ValueError")
    ELSE LET r == EngineSteps(NoStep(d), 1, options, table[stage])
         IN  IF r.err # "none"
             THEN r
             ELSE StepResult(_update_checksum(r.data), r.mods, "none")

\* the k-th removal of perform_tuning on the bytes d
RemovalStep(k, d, r) ==
    CASE k = 1 -> IF r.remove_dpf THEN remove_dpf(d) ELSE NoStep(d)
      [] k = 2 -> IF r.remove_egr THEN remove_egr(d) ELSE NoStep(d)
      [] k = 3 -> IF r.remove_dtc_codes # <<>>
                  THEN remove_dtc_codes(d, r.remove_dtc_codes) ELSE NoStep(d)

RECURSIVE Removals(_, _, _)
Removals(res, k, r) ==
    IF res.err # "none" \/ k > 3 THEN res
    ELSE LET s == AndThen(res, RemovalStep(k, res.data, r))
         IN  IF Len(s.mods) >= 0 THEN Removals(s, k + 1, r) ELSE s

(* The try block of perform_tuning for the file f and the request r, from  *)
(* the engine call to the bytes that are written, with the tables of       *)
(* __init__: what one request gives when it is the only one.               *)
TryBlock(f, r) ==
    IF ~r.custom_parameters.present
    THEN StepResult(f, <<>>, "AttributeError")
    ELSE Removals(apply_stage_tuning(f, r.stage, Options(r), stage_multipliers), 1, r)

\* a request as it enters perform_tuning; earlier counts the calls ended before it ran
NewTask(f, r) ==
    [ file |-> f, req |-> r, pc |-> "start", tuned_data |-> <<>>,
      modifications |-> <<>>, err |-> "none", tuned_file |-> NoFile, earlier |-> 0 ]

Ended(t) == t.pc \in {"done", "failed"}

\* the uploaded files and requests of the tasks
TaskInputs ==
    { NewTask(Image(FullLen, 16, 0, <<>>), DefaultRequest),
      NewTask(Image(FullLen, 16, 0, <<>>),
              [DefaultRequest EXCEPT !.stage = "stage2", !.remove_dpf = TRUE,
                                     !.remove_egr = TRUE,
                                     !.remove_dtc_codes = <<"P0420", "P0300">>]),
      NewTask(Image(FullLen, 16, 16, <<4, 32>>),
              [DefaultRequest EXCEPT !.remove_dtc_codes = <<"P0420">>]),
      NewTask(Image(FullLen, 0, 0, <<>>), DefaultRequest) }

TaskInit ==
    /\ tasks \in [1..NumTasks -> TaskInputs]
    /\ engine = Engine
    /\ scan = NoScan
    /\ file = <<>>
    /\ req = DefaultRequest
    /\ pc = "tasks"
    /\ modified_data = <<>>
    /\ modifications = <<>>
    /\ err = "none"
    /\ failed_at = "none"
    /\ report = NoReport
    /\ tuned_file = NoFile
    /\ backups = <<>>
    /\ calls = NumTasks
    /\ executed = <<>>
    /\ comparisons = <<>>

\* what a step of a task leaves alone
TaskFrame ==
    UNCHANGED <<file, req, pc, modified_data, modifications, err, failed_at, report,
                tuned_file, backups, calls, executed, comparisons, scan>>

\* task p goes on with the result r of the call it awaited
TaskFinish(p, r, next) ==
    tasks' = [tasks EXCEPT ![p] =
                 IF r.err = "none"
                 THEN [@ EXCEPT !.pc = next, !.tuned_data = r.data,
                                !.modifications = @ \o r.mods]
                 ELSE [@ EXCEPT !.pc = "failed", !.err = r.err]]

\* the stage table is written back with the boost multiplier raised
TaskApplyStage_WritesTable(p) ==
    LET t == tasks[p]
        r == IF t.req.custom_parameters.present
             THEN apply_stage_tuning(t.file, t.req.stage, Options(t.req),
                                     engine.stage_multipliers)
             ELSE StepResult(t.file, <<>>, "AttributeError")
        seen == Cardinality({q \in DOMAIN tasks : Ended(tasks[q])})
    IN  /\ t.pc = "start"
        /\ tasks' = [tasks EXCEPT ![p] =
                        IF r.err = "none"
                        THEN [@ EXCEPT !.pc = "dpf", !.tuned_data = r.data,
                                       !.modifications = r.mods, !.earlier = seen]
                        ELSE [@ EXCEPT !.pc = "failed", !.err = r.err, !.earlier = seen]]
        /\ engine' = IF t.req.stage \in DOMAIN engine.stage_multipliers
                     THEN [engine EXCEPT !.stage_multipliers[t.req.stage].boost = @ + 5]
                     ELSE engine
        /\ TaskFrame

\* the options are built and apply_stage_tuning is awaited
TaskApplyStage(p) ==
    LET t == tasks[p]
        r == IF t.req.custom_parameters.present
             THEN apply_stage_tuning(t.file, t.req.stage, Options(t.req),
                                     engine.stage_multipliers)
             ELSE StepResult(t.file, <<>>, "AttributeError")
        seen == Cardinality({q \in DOMAIN tasks : Ended(tasks[q])})
    IN  /\ t.pc = "start"
        /\ tasks' = [tasks EXCEPT ![p] =
                        IF r.err = "none"
                        THEN [@ EXCEPT !.pc = "dpf", !.tuned_data = r.data,
                                       !.modifications = r.mods, !.earlier = seen]
                        ELSE [@ EXCEPT !.pc = "failed", !.err = r.err, !.earlier = seen]]
        /\ UNCHANGED engine
        /\ TaskFrame

TaskRemoveDpf(p) ==
    /\ tasks[p].pc = "dpf"
    /\ TaskFinish(p, IF tasks[p].req.remove_dpf
                     THEN remove_dpf(tasks[p].tuned_data)
                     ELSE NoStep(tasks[p].tuned_data), "egr")
    /\ UNCHANGED engine
    /\ TaskFrame

TaskRemoveEgr(p) ==
    /\ tasks[p].pc = "egr"
    /\ TaskFinish(p, IF tasks[p].req.remove_egr
                     THEN remove_egr(tasks[p].tuned_data)
                     ELSE NoStep(tasks[p].tuned_data), "dtc")
    /\ UNCHANGED engine
    /\ TaskFrame

\* the pattern table loses the codes that were looked up
TaskRemoveDtcCodes_WritesTable(p) ==
    /\ tasks[p].pc = "dtc"
    /\ TaskFinish(p, IF tasks[p].req.remove_dtc_codes # <<>>
                     THEN remove_dtc_codes(tasks[p].tuned_data, tasks[p].req.remove_dtc_codes)
                     ELSE NoStep(tasks[p].tuned_data), "write")
    /\ engine' = IF tasks[p].req.remove_dtc_codes # <<>>
                 THEN [engine EXCEPT !.dtc_patterns = [P0420 |-> <<0, 0>>]]
                 ELSE engine
    /\ TaskFrame

TaskRemoveDtcCodes(p) ==
    /\ tasks[p].pc = "dtc"
    /\ TaskFinish(p, IF tasks[p].req.remove_dtc_codes # <<>>
                     THEN remove_dtc_codes(tasks[p].tuned_data, tasks[p].req.remove_dtc_codes)
                     ELSE NoStep(tasks[p].tuned_data), "write")
    /\ UNCHANGED engine
    /\ TaskFrame

\* the tuned file of the task is written; the task's except branch is behind it
TaskWriteTuned(p) ==
    /\ tasks[p].pc = "write"
    /\ tasks' = [tasks EXCEPT ![p] =
                    [@ EXCEPT !.pc = "done",
                              !.tuned_file = [written |-> TRUE,
                                              data |-> tasks[p].tuned_data]]]
    /\ UNCHANGED engine
    /\ TaskFrame

TaskNext ==
    \/ \E p \in DOMAIN tasks : TaskApplyStage(p)
    \/ \E p \in DOMAIN tasks : TaskRemoveDpf(p)
    \/ \E p \in DOMAIN tasks : TaskRemoveEgr(p)
    \/ \E p \in DOMAIN tasks : TaskRemoveDtcCodes(p)
    \/ \E p \in DOMAIN tasks : TaskWriteTuned(p)

TaskSpec == TaskInit /\ [][TaskNext]_vars

----------------------------------------------------------------------------
(* Properties *)

\* the buffer handed back by a call that succeeded
Returned == tuned_file.data

\* the trailer relations a checksum round trip recomputes on a buffer b
CrcStored(b) == PackI(crc32(DropLast(b, 4))) = TakeLast(b, 4)

SumStored(b) == PackH(ByteSum16(DropLast(b, 2))) = TakeLast(b, 2)

(* C1: after any successful patch the trailer is self-consistent: the      *)
(* CRC-32 of buffer[:-4] is the big-endian value of the last 4 bytes and   *)
(* the 16-bit byte sum of buffer[:-2] is the big-endian value of the last  *)
(* 2 bytes.                                                                *)
C1_TrailerConsistent ==
    pc = "done" => CrcStored(Returned) /\ SumStored(Returned)

\* the records of the modification list, and those of one type
Mods == {modifications[i] : i \in 1..Len(modifications)}

ModsOf(type) == {m \in Mods : m.type = type}

WordTypes == {"boost_pressure", "fuel_injection", "torque_limiter"}

ValueSteps == {"boost", "fuel", "timing", "torque"}

\* the multiplier a value-transform step of this call uses for a record type
MultiplierOf(type) ==
    CASE type = "boost_pressure" -> multipliers.boost
      [] type = "fuel_injection" -> multipliers.fuel
      [] type = "ignition_timing" -> multipliers.timing
      [] type = "torque_limiter" -> multipliers.torque_limit

(* C2: every field written by a value-transform step is in its encoding's  *)
(* range: a patched unsigned 16-bit field is in 0..65535 and a patched     *)
(* signed 8-bit field in -128..127; a product outside the range is stored  *)
(* as the nearest bound, and no value-transform step ends in a packing     *)
(* error.                                                                  *)
C2_RangeInvariant ==
    /\ \A m \in Mods :
          /\ m.type \in WordTypes =>
                /\ m.modified >= 0 /\ m.modified <= 65535
                /\ PyIntMul(m.original, MultiplierOf(m.type)) > 65535
                      => m.modified = 65535
          /\ m.type = "ignition_timing" =>
                /\ m.modified >= -128 /\ m.modified <= 127
                /\ PyIntMul(m.original, MultiplierOf(m.type)) > 127
                      => m.modified = 127
                /\ PyIntMul(m.original, MultiplierOf(m.type)) < -128
                      => m.modified = -128
    /\ ~(err = "struct.error" /\ failed_at \in ValueSteps)

\* a 16-bit product above 65535 and both 8-bit clamps occurred in one call
C2_Witness ==
    /\ \E m \in ModsOf("boost_pressure") :
          PyIntMul(m.original, multipliers.boost) > 65535 /\ m.modified = 65535
    /\ \E m \in ModsOf("ignition_timing") :
          PyIntMul(m.original, multipliers.timing) < -128 /\ m.modified = -128
    /\ \E m \in ModsOf("ignition_timing") :
          PyIntMul(m.original, multipliers.timing) > 127 /\ m.modified = 127

\* the offsets of the fields of a region, width bytes each
Fields(region, width) ==
    {o \in region.start .. (region.start + region.size - 1) :
        (o - region.start) % width = 0}

InBounds(region, d) == region.start + region.size <= Len(d)

(* The 16-bit field at o of the buffer after holds the clamped, truncated  *)
(* product of the field at o of the buffer before, big-endian.  Below the  *)
(* bound the stored w is bracketed by the exact product: w <= v*m <= w+1,  *)
(* the right end being met only where the double product rounds below an   *)
(* exact integer.                                                          *)
WordTransformed(before, after, o, k) ==
    LET v == UnpackH(before, o)
        w == after[o + 1] * 256 + after[o + 2]
    IN  /\ w = ClampH(PyIntMul(v, k))
        /\ w < 65535 => 100 * w <= v * k /\ v * k <= 100 * (w + 1)
        /\ (v = 4096 /\ k = 115) => <<after[o + 1], after[o + 2]>> = <<18, 102>>

\* the same for a signed 8-bit field, truncation being toward zero
ByteTransformed(before, after, o, k) ==
    LET v == Unpackb(before, o)
        w == IF after[o + 1] >= 128 THEN after[o + 1] - 256 ELSE after[o + 1]
        av == IF v < 0 THEN 0 - v ELSE v
        aw == IF w < 0 THEN 0 - w ELSE w
    IN  /\ w = Clampb(PyIntMul(v, k))
        /\ (w > -128 /\ w < 127) =>
              /\ 100 * aw <= av * k /\ av * k <= 100 * (aw + 1)
              /\ (v >= 0 => w >= 0) /\ (v <= 0 => w <= 0)

\* a value-transform step ran to its end on a region inside the image
StepDone(from, to, region) ==
    pc = from /\ pc' = to /\ InBounds(region, modified_data)

C4_IdentityMultiplier ==
    (pc # "call" /\ req.multiplier = 100 /\ InBounds(UnitRegion, file)) =>
        /\ err = "none"
        /\ modified_data = file
        /\ \A m \in Mods :
              "change_percent" \in DOMAIN m => m.change_percent = 0
        /\ req.step = "boost" =>
              \A o \in Fields(UnitRegion, 2) :
                  \E m \in Mods : m.address = o /\ m.change_percent = 0

\* the region each step of the call works on
RegionOfStep ==
    [ boost  |-> map_addresses.boost_map,
      fuel   |-> map_addresses.fuel_map,
      timing |-> map_addresses.timing_map,
      torque |-> map_addresses.torque_limiter,
      rpm    |-> map_addresses.limiter_map,
      speed  |-> map_addresses.limiter_map,
      dpf    |-> map_addresses.dpf_data,
      egr    |-> map_addresses.egr_data ]

\* the step that follows each of them
StepAfter ==
    [ boost |-> "fuel", fuel |-> "timing", timing |-> "torque", torque |-> "rpm",
      rpm |-> "speed", speed |-> "checksum", dpf |-> "egr", egr |-> "dtc" ]

(* C5: a region whose start+length exceeds the image length is skipped as  *)
(* a whole: the step records no modification, writes no byte, raises no    *)
(* fatal error and the next step follows; this for every region a step     *)
(* uses, the limiter region of the rpm and speed steps included.           *)
C5_BoundarySafety ==
    [][ \A st \in DOMAIN RegionOfStep :
          (pc = st /\ ~InBounds(RegionOfStep[st], modified_data)) =>
              /\ modified_data' = modified_data
              /\ modifications' = modifications
              /\ pc' = StepAfter[st]
      ]_vars

\* the offsets at which a pattern occurs in a buffer
Occurrences(d, pattern) == {k \in 0 .. (Len(d) - 1) : MatchAt(d, pattern, k)}

(* C6: DTC removal is idempotent for P0420.  If the image holds 04 20 at   *)
(* offset k, the patch with dtc_codes_to_remove = ["P0420"] zeroes bytes   *)
(* [k, k+2), and the same patch run again on the returned image records    *)
(* no modification for P0420.  (backups[1] is the image of the first       *)
(* call.)                                                                  *)
C6_DtcIdempotent ==
    (pc = "done" /\ req.remove_dtc_codes = <<"P0420">>) =>
        /\ calls = 1 =>
              \A k \in Occurrences(file, dtc_patterns.P0420) :
                  Returned[k + 1] = 0 /\ Returned[k + 2] = 0
        /\ (calls = 2 /\ Occurrences(backups[1], dtc_patterns.P0420) # {}) =>
              \A m \in ModsOf("dtc_removal") : m.code # "P0420"

(* C7: a request whose stage id is not in the stage table fails as a       *)
(* whole: the error is raised before any byte of the working buffer is     *)
(* modified, and neither a buffer nor a report is returned.                *)
C7_UnknownStage ==
    req.stage \notin DOMAIN stage_multipliers =>
        /\ pc \in {"start", "engine", "failed"}
        /\ modified_data \in {<<>>, file}
        /\ modifications = <<>>
        /\ ~report.returned
        /\ ~tuned_file.written
        /\ backups = <<>>
        /\ (pc = "failed" /\ failed_at = "engine") =>
              err = "ValueError" /\ modified_data = file

\* the engine has rejected "stage4" with the copy of a whole image untouched
C7_Witness ==
    /\ pc = "failed"
    /\ err = "ValueError"
    /\ req.stage = "stage4"
    /\ Len(file) = FullLen
    /\ modified_data = file

(* C8: the image length never changes during a patch: for every input      *)
(* image, those shorter than 4 bytes and the empty one included, the       *)
(* returned buffer has the length of the input, and the report's           *)
(* original_size equals its modified_size.                                 *)
C8_LengthPreserved ==
    /\ report.returned => report.original_size = report.modified_size
    /\ pc = "done" => Len(Returned) = Len(file)

(* C9: a patch either runs to its end or fails; when a step fails, also    *)
(* after earlier steps have changed bytes, no buffer is returned or        *)
(* persisted: the failing call writes no tuned file and no backup and      *)
(* leaves the uploaded file as it was, while a call that ends well has     *)
(* raised nothing and has written the buffer of its last step.             *)
C9_AllOrNothing ==
    [][ /\ pc' = "failed" =>
              /\ err' # "none"
              /\ ~tuned_file'.written
              /\ backups' = backups
              /\ file' = file
        /\ pc' = "done" =>
              /\ err' = "none"
              /\ tuned_file'.written
              /\ tuned_file'.data = modified_data'
      ]_vars

\* the rpm step raised after earlier steps had changed and recorded bytes
C9_Witness ==
    /\ pc = "failed"
    /\ failed_at = "rpm"
    /\ modified_data # file
    /\ ~tuned_file.written

(* C10: with remove_dpf = true, on an image that contains the DPF region,  *)
(* every byte of the region is 0x00 in the returned buffer, whatever it    *)
(* held before and whatever other steps were requested.                    *)
C10_DpfZeroed ==
    (pc = "done" /\ req.remove_dpf /\ InBounds(map_addresses.dpf_data, file)) =>
        \A o \in Fields(map_addresses.dpf_data, 1) : Returned[o + 1] = 0

\* a DPF region that held non-zero bytes is zero after a call with DTC removal too
C10_Witness ==
    /\ pc = "done"
    /\ req.remove_dpf
    /\ req.remove_dtc_codes # <<>>
    /\ InBounds(map_addresses.dpf_data, file)
    /\ \A o \in Fields(map_addresses.dpf_data, 1) : file[o + 1] # 0
    /\ \A o \in Fields(map_addresses.dpf_data, 1) : Returned[o + 1] = 0

----------------------------------------------------------------------------
(* Properties of compare_files *)

\* the value of a hexadecimal digit
HexValue(c) == CHOOSE k \in 0..15 : HexDigit[k + 1] = c

RECURSIVE ParseDigits(_, _, _)
ParseDigits(h, i, acc) ==
    IF i > Len(h) THEN acc ELSE ParseDigits(h, i + 1, acc * 16 + HexValue(h[i]))

\* h is "0x" followed by at least one hexadecimal digit
IsHex(h) ==
    /\ Len(h) >= 3
    /\ h[1] = "0" /\ h[2] = "x"
    /\ \A i \in 3..Len(h) : \E k \in 1..16 : HexDigit[k] = h[i]

\* the number the string h stands for
FromHex(h) == ParseDigits(h, 3, 0)

\* the indices below min(len(a), len(b)) at which a and b differ
DifferingOffsets(a, b) ==
    {i \in 0 .. (Min(Len(a), Len(b)) - 1) : a[i + 1] # b[i + 1]}

\* the arguments of the k-th compare_files call
ComparedOriginal(k) == IF k = 1 THEN file ELSE tuned_file.data

ComparedTuned(k) == IF k = 1 THEN tuned_file.data ELSE file

Returns == {k \in 1..Len(comparisons) : comparisons[k].returned}

(* C11: compare reports the true total: differences_count is the number of *)
(* indices i < min(len(a), len(b)) with a[i] # b[i], and each reported     *)
(* entry is {offset i, a[i], b[i]} for such an index (the three fields are *)
(* hex() strings, read back here as numbers).                              *)
C11_TrueTotal ==
    \A k \in Returns :
        LET a == ComparedOriginal(k)
            b == ComparedTuned(k)
            c == comparisons[k]
        IN  /\ c.differences_count = Cardinality(DifferingOffsets(a, b))
            /\ \A n \in 1..Len(c.differences) :
                  LET e == c.differences[n]
                      i == FromHex(e.offset)
                  IN  /\ IsHex(e.offset) /\ IsHex(e.original) /\ IsHex(e.tuned)
                      /\ i \in DifferingOffsets(a, b)
                      /\ FromHex(e.original) = a[i + 1]
                      /\ FromHex(e.tuned) = b[i + 1]

\* files of different lengths that differ at some but not all paired indices
C11_Witness ==
    /\ 1 \in Returns
    /\ Len(file) > Len(tuned_file.data)
    /\ comparisons[1].differences_count > 1
    /\ comparisons[1].differences_count < Len(tuned_file.data)
    /\ Len(comparisons[1].differences) = comparisons[1].differences_count

\* the offsets of D that have fewer than n offsets of D below them
Lowest(D, n) == {i \in D : Cardinality({j \in D : j < i}) < n}

(* C12: the differences list never has more than 100 entries and is        *)
(* exactly the first 100 differing offsets in ascending order, while       *)
(* differences_count is the total number of differing offsets, which may   *)
(* exceed 100.                                                             *)
C12_CappedList ==
    \A k \in Returns :
        LET D == DifferingOffsets(ComparedOriginal(k), ComparedTuned(k))
            c == comparisons[k]
            L == c.differences
        IN  /\ Len(L) <= 100
            /\ Len(L) = Min(Cardinality(D), 100)
            /\ \A n \in 1 .. (Len(L) - 1) : FromHex(L[n].offset) < FromHex(L[n + 1].offset)
            /\ {FromHex(L[n].offset) : n \in 1..Len(L)} = Lowest(D, 100)
            /\ c.differences_count = Cardinality(D)

\* more than 100 offsets differ, 100 are listed and a differing one is left out
C12_Witness ==
    /\ 1 \in Returns
    /\ comparisons[1].differences_count > 100
    /\ Len(comparisons[1].differences) = 100
    /\ file[1] = tuned_file.data[1]
    /\ FromHex(comparisons[1].differences[100].offset) = 100

(* C13: for two images A and B of equal length, compare(A, B) and          *)
(* compare(B, A) report the same differences_count.                        *)
C13_DiffSymmetry ==
    (pc = "swapped" /\ Len(file) = Len(tuned_file.data)) =>
        /\ comparisons[1].returned = comparisons[2].returned
        /\ comparisons[1].returned =>
              comparisons[1].differences_count = comparisons[2].differences_count

\* both calls returned for equal lengths, with bytes that grew and bytes that fell
C13_Witness ==
    /\ pc = "swapped"
    /\ Len(file) = Len(tuned_file.data)
    /\ comparisons[1].returned /\ comparisons[2].returned
    /\ comparisons[2].differences_count > 0
    /\ \E i \in DifferingOffsets(file, tuned_file.data) : file[i + 1] < tuned_file.data[i + 1]
    /\ \E i \in DifferingOffsets(file, tuned_file.data) : file[i + 1] > tuned_file.data[i + 1]

(* C14: compare with a zero-length first image fails with a fatal error    *)
(* and returns no report; for every non-empty first image it returns a     *)
(* report and does not fail, whatever the second image is.                 *)
C14_EmptyImage ==
    \A k \in 1..Len(comparisons) :
        IF Len(ComparedOriginal(k)) = 0
        THEN ~comparisons[k].returned /\ comparisons[k].err = "ZeroDivisionError"
        ELSE comparisons[k].returned /\ comparisons[k].err = "none"

\* the empty file first raised, the same two files exchanged gave a report
C14_Witness ==
    /\ pc = "swapped"
    /\ Len(file) = 0
    /\ Len(tuned_file.data) > 0
    /\ ~comparisons[1].returned /\ comparisons[1].err = "ZeroDivisionError"
    /\ comparisons[2].returned /\ comparisons[2].total_bytes = Len(tuned_file.data)

----------------------------------------------------------------------------
(* Properties of the requests served side by side *)

Tasks == DOMAIN tasks

\* the same outcome: end, error, bytes written and modification list
SameOutcome(t, u) ==
    /\ t.pc = u.pc
    /\ t.err = u.err
    /\ t.tuned_file = u.tuned_file
    /\ t.pc = "done" => t.modifications = u.modifications

(* C15: patch is a deterministic function of (image, request): two calls   *)
(* with identical image and identical request return byte-identical        *)
(* buffers and identical modification lists (or fail alike), whatever      *)
(* calls the shared engine instance has served before.                     *)
C15_Deterministic ==
    \A p, q \in Tasks :
        (Ended(tasks[p]) /\ Ended(tasks[q])
            /\ tasks[p].file = tasks[q].file /\ tasks[p].req = tasks[q].req)
        => SameOutcome(tasks[p], tasks[q])

\* the same file and request, once on the fresh instance and once after a call had ended
C15_Witness ==
    \E p, q \in Tasks :
        /\ tasks[p].pc = "done" /\ tasks[q].pc = "done"
        /\ tasks[p].file = tasks[q].file /\ tasks[p].req = tasks[q].req
        /\ tasks[p].earlier = 0 /\ tasks[q].earlier > 0
        /\ tasks[p].modifications # <<>>
        /\ tasks[p].tuned_file.data # tasks[p].file
        /\ tasks[q].tuned_file = tasks[p].tuned_file

\* task t ended as its request ends when served alone
AsAlone(t) ==
    LET a == TryBlock(t.file, t.req)
    IN  IF a.err = "none"
        THEN /\ t.pc = "done"
             /\ t.tuned_file = [written |-> TRUE, data |-> a.data]
             /\ t.modifications = a.mods
        ELSE /\ t.pc = "failed"
             /\ t.err = a.err
             /\ ~t.tuned_file.written

(* C16: calls running side by side on independent images do not interfere: *)
(* no step writes the region table, the stage table or the DTC pattern     *)
(* table, a step changes the buffers of its own call only, and every call  *)
(* ends as it ends when run alone, under every interleaving.  (A call that *)
(* has ended is compared once, at the step that ends it; no later step     *)
(* changes it.)                                                            *)
C16_NoInterference ==
    [][ /\ engine' = engine
        /\ engine = Engine
        /\ Cardinality({p \in Tasks : tasks'[p] # tasks[p]}) <= 1
        /\ \A p \in Tasks :
              (Ended(tasks'[p]) /\ ~Ended(tasks[p])) => AsAlone(tasks'[p])
      ]_vars

\* two different requests, each begun before the other ended, both ended well
C16_Witness ==
    \E p, q \in Tasks :
        /\ tasks[p].pc = "done" /\ tasks[q].pc = "done"
        /\ tasks[p].file # tasks[q].file
        /\ tasks[p].req # tasks[q].req
        /\ tasks[p].earlier = 0 /\ tasks[q].earlier = 0
        /\ tasks[p].modifications # <<>> /\ tasks[q].modifications # <<>>
        /\ AsAlone(tasks[p]) /\ AsAlone(tasks[q])

----------------------------------------------------------------------------
(* Properties of the order of the steps *)

\* how often a step occurs among the steps run
TimesRun(steps, st) == Cardinality({i \in 1..Len(steps) : steps[i] = st})

\* the checksum step of this call has run and the tuned file is not yet written
ChecksumDone == pc \in {"dpf", "egr", "dtc", "write"}

(* C17: the checksum step is the last transform of a patch: it runs        *)
(* exactly once, and once it has run no step modifies a byte of the buffer *)
(* before the buffer is handed to the caller or persisted.                 *)
C17_ChecksumLast ==
    [][ /\ ChecksumDone => modified_data' = modified_data
        /\ pc' = "done" =>
              /\ TimesRun(executed', "checksum") = 1
              /\ executed'[Len(executed')] = "checksum"
      ]_vars

\* the place of each step in the order of the pipeline
StepRank ==
    [ boost |-> 1, fuel |-> 2, timing |-> 3, torque |-> 4, rpm |-> 5, speed |-> 6,
      dpf |-> 7, egr |-> 8, adblue |-> 9, dtc |-> 10, checksum |-> 11 ]

(* C18: the steps a patch runs occur in the order boost, fuel, timing,     *)
(* torque limiter, rpm limiter, speed limiter, DPF removal, EGR removal,   *)
(* AdBlue removal, DTC removal, checksum: no step runs twice and none runs *)
(* before a step that precedes it in this order, for every combination of  *)
(* request flags.                                                          *)
C18_FixedOrder ==
    \A i, j \in 1..Len(executed) :
        i < j => StepRank[executed[i]] < StepRank[executed[j]]

\* the records the step of this transition has appended
NewMods == SubSeq(modifications', Len(modifications) + 1, Len(modifications'))

\* the offsets of a region
Offsets(region) == region.start .. (region.start + region.size - 1)

\* the offsets the records ms of a DTC removal cover
Covered(ms) ==
    UNION { m.address .. (m.address + Len(dtc_patterns[m.code]) - 1) :
            m \in {ms[k] : k \in 1..Len(ms)} }

\* the offsets a step may write
Written(st) ==
    CASE st = "boost" -> Offsets(map_addresses.boost_map)
      [] st = "fuel" -> Offsets(map_addresses.fuel_map)
      [] st = "timing" -> Offsets(map_addresses.timing_map)
      [] st = "torque" -> Offsets(map_addresses.torque_limiter)
      [] st = "rpm" -> {map_addresses.limiter_map.start, map_addresses.limiter_map.start + 1}
      [] st = "speed" -> {map_addresses.limiter_map.start + 2}
      [] st = "dpf" -> Offsets(map_addresses.dpf_data)
      [] st = "egr" -> Offsets(map_addresses.egr_data)
      [] st = "dtc" -> Covered(NewMods)

\* the k-th new record tells what the buffer d held where the step read it
ReadFrom(d, k) ==
    LET m == NewMods[k]
    IN  CASE m.type \in WordTypes \cup {"rpm_limiter"} -> m.original = UnpackH(d, m.address)
          [] m.type = "ignition_timing" -> m.original = Unpackb(d, m.address)
          [] m.type = "speed_limiter" -> m.original = d[m.address + 1]
          [] m.type = "dtc_removal" ->
                LET pattern == dtc_patterns[m.code]
                    zeroed == Covered(SubSeq(NewMods, 1, k - 1))
                IN  /\ m.address + Len(pattern) <= Len(d)
                    /\ \A j \in 1..Len(pattern) :
                          \/ d[m.address + j] = pattern[j]
                          \/ pattern[j] = 0 /\ (m.address + j - 1) \in zeroed
          [] OTHER -> TRUE

\* the step that follows each step of a call
FollowedBy ==
    [ boost |-> "fuel", fuel |-> "timing", timing |-> "torque", torque |-> "rpm",
      rpm |-> "speed", speed |-> "checksum", dpf |-> "egr", egr |-> "dtc",
      dtc |-> "write" ]

(* C19: every step works on the buffer as the earlier steps of the same    *)
(* patch left it: the original value a step records for a field is what    *)
(* the buffer held just before the step (the value of the latest earlier   *)
(* step that wrote there, or of the input), a removed DTC pattern stood in *)
(* that buffer, the bytes a step does not write stay as the earlier steps  *)
(* left them, and the checksum is computed over that buffer; no step goes  *)
(* back to the input.                                                      *)
C19_ReadsModified ==
    [][ /\ \A st \in DOMAIN FollowedBy :
              (pc = st /\ pc' = FollowedBy[st]) =>
                  /\ Len(modified_data') = Len(modified_data)
                  /\ \A i \in 1..Len(modified_data) :
                        (i - 1) \notin Written(st) => modified_data'[i] = modified_data[i]
                  /\ \A k \in 1..Len(NewMods) : ReadFrom(modified_data, k)
        /\ (pc = "checksum" /\ pc' = "dpf" /\ Len(modified_data) >= 4) =>
              /\ DropLast(modified_data', 4) = DropLast(modified_data, 4)
              /\ SubSeq(TakeLast(modified_data', 4), 1, 2)
                    = PackH(crc32(DropLast(modified_data, 4)).hi)
      ]_vars

\* a DTC pattern that the boost step wrote, and that the input did not hold, was removed
C19_Witness ==
    /\ pc = "write"
    /\ Len(file) = FullLen
    /\ \E m \in ModsOf("dtc_removal") :
          /\ m.address \in Offsets(map_addresses.boost_map)
          /\ ~MatchAt(file, dtc_patterns[m.code], m.address)
          /\ \E b \in ModsOf("boost_pressure") :
                b.address = m.address /\ PackH(b.modified) = dtc_patterns[m.code]

----------------------------------------------------------------------------
(* Properties of the checksum step *)

\* an image of 26 bytes 0x10 tuned with the default request
PlainCall ==
    /\ Len(file) = 26
    /\ \A i \in 1..Len(file) : file[i] = 16
    /\ req = DefaultRequest

(* C20: the checksum step computes (1) the CRC-32 over all bytes except    *)
(* the last 4, stored big-endian in the last 4 bytes, and then (2) the sum *)
(* mod 65536 of all bytes except the last 2 of the buffer as it stands     *)
(* after (1), so that the two CRC bytes at [-4, -2) are part of the sum,   *)
(* stored big-endian in the last 2 bytes.  After the step the buffer is    *)
(* the bytes before the trailer, the high half of the CRC and that sum;    *)
(* for the plain call the trailer is 47 C7 05 B3 (CRC-32 0x47C78884).      *)
C20_ChecksumOrder ==
    [][ (pc = "checksum" /\ pc' = "dpf") =>
            LET body == DropLast(modified_data, 4)
                c == crc32(body)
                total == (SumBytes(body, 1) + (c.hi \div 256) + (c.hi % 256)) % 65536
            IN  /\ modified_data'
                      = body \o <<c.hi \div 256, c.hi % 256, total \div 256, total % 256>>
                /\ PlainCall => TakeLast(modified_data', 4) = <<71, 199, 5, 179>>
      ]_vars

\* the checksum step has run on the plain call
C20_Witness ==
    /\ pc = "dpf"
    /\ PlainCall
    /\ calls = 1
    /\ TakeLast(modified_data, 4) = <<71, 199, 5, 179>>
    /\ DropLast(modified_data, 4) # DropLast(file, 4)

----------------------------------------------------------------------------
(* Properties of the modification list *)

\* the width in bytes of the fields of the step of a unit call
UnitWidth == IF req.step = "timing" THEN 1 ELSE 2

\* the value the field at o holds in buffer d, read as the unit step reads it
UnitField(d, o) == IF req.step = "timing" THEN Unpackb(d, o) ELSE UnpackH(d, o)

\* the fields of the region that hold 0 when the unit step is called
ZeroFields == {o \in Fields(UnitRegion, UnitWidth) : UnitField(file, o) = 0}

\* the positions of the modification list that record the field at o
RecordsOf(o) == {k \in 1..Len(modifications) : modifications[k].address = o}

(* C21: a value-transform step on a field whose original value is 0 does   *)
(* not fail: the field is written (as 0), one Modification is recorded for *)
(* it with the change-percentage omitted, and the step goes on to the      *)
(* remaining fields of the region.  (Checked under UnitSpec, for each of   *)
(* the four value-transform steps.)                                        *)
C21_ZeroOriginal ==
    (pc # "call" /\ InBounds(UnitRegion, file) /\ ZeroFields # {}) =>
        /\ err = "none"
        /\ \A o \in ZeroFields :
              /\ UnitField(modified_data, o) = 0
              /\ Cardinality(RecordsOf(o)) = 1
              /\ \A k \in RecordsOf(o) :
                    /\ modifications[k].original = 0
                    /\ modifications[k].modified = 0
                    /\ "change_percent" \notin DOMAIN modifications[k]
        /\ \A o \in Fields(UnitRegion, UnitWidth) : RecordsOf(o) # {}

----------------------------------------------------------------------------
(* remove_dtc_codes called on its own, one turn of its loops per step: the *)
(* method takes the buffer and the code list as arguments.  Here file is   *)
(* the buffer at the call, modified_data the bytearray data the method     *)
(* works on, req.remove_dtc_codes the list handed over as dtc_list,        *)
(* scan.dtc_code the position of the for loop in dtc_list and scan.offset  *)
(* the cursor of the while loop.                                           *)

\* the longest buffer a scan is called with
MaxScanLen == 4

\* the bytes of the patterns P0420 and P0300
ScanBytes == {0, 3, 4, 32}

ScanBuffers == UNION { [1..n -> ScanBytes] : n \in 0..MaxScanLen }

ScanLists == DtcLists \cup { <<"P0300", "P0420">> }

ScanStart == [dtc_code |-> 1, offset |-> 0]

\* the argument dtc_list of the call
ScanList == req.remove_dtc_codes

ScanInit ==
    /\ file \in ScanBuffers
    /\ req \in [remove_dtc_codes : ScanLists]
    /\ pc = "scan"
    /\ modified_data = file
    /\ modifications = <<>>
    /\ err = "none"
    /\ failed_at = "none"
    /\ report = NoReport
    /\ tuned_file = NoFile
    /\ backups = <<>>
    /\ calls = 1
    /\ executed = <<>>
    /\ engine = Engine
    /\ tasks = <<>>
    /\ comparisons = <<>>
    /\ scan = ScanStart

\* the for loop has a code left
Scanning == pc = "scan" /\ scan.dtc_code <= Len(ScanList)

\* dtc_code and pattern of the turn of the for loop
ScanCode == ScanList[scan.dtc_code]

ScanPattern == dtc_patterns[ScanCode]

\* the code is known, the while condition holds and find returns an index
ScanFinds ==
    /\ ScanCode \in DOMAIN dtc_patterns
    /\ scan.offset < Len(modified_data)
    /\ Find(modified_data, ScanPattern, scan.offset) # -1

\* a turn of the while loop: the match is zeroed, recorded and stepped over
ScanMatch ==
    /\ Scanning
    /\ ScanFinds
    /\ LET index == Find(modified_data, ScanPattern, scan.offset)
       IN  /\ modified_data' = Put(modified_data, index, Zeros(Len(ScanPattern)))
           /\ modifications' = Append(modifications, [address |-> index,
                                                       type |-> "dtc_removal",
                                                       code |-> ScanCode])
           /\ scan' = [scan EXCEPT !.offset = index + Len(ScanPattern)]
    /\ UNCHANGED <<file, req, pc, err, failed_at, report, tuned_file, backups, calls,
                   executed, engine, tasks, comparisons>>

\* unknown code, cursor at the end or no further match: the next code follows
ScanNextCode ==
    /\ Scanning
    /\ ~ScanFinds
    /\ scan' = [dtc_code |-> scan.dtc_code + 1, offset |-> 0]
    /\ UNCHANGED <<file, req, pc, modified_data, modifications, err, failed_at, report,
                   tuned_file, backups, calls, executed, engine, tasks, comparisons>>

\* the for loop is over: the modification list is returned
ScanReturn ==
    /\ pc = "scan"
    /\ scan.dtc_code > Len(ScanList)
    /\ pc' = "returned"
    /\ UNCHANGED <<file, req, modified_data, modifications, err, failed_at, report,
                   tuned_file, backups, calls, executed, engine, tasks, comparisons,
                   scan>>

\* the method is called again with the buffer it left and the same list
ScanAgain ==
    /\ pc = "returned"
    /\ calls < MaxCalls
    /\ calls' = calls + 1
    /\ file' = modified_data
    /\ modifications' = <<>>
    /\ scan' = ScanStart
    /\ pc' = "scan"
    /\ UNCHANGED <<req, modified_data, err, failed_at, report, tuned_file, backups,
                   executed, engine, tasks, comparisons>>

ScanNext ==
    \/ ScanMatch
    \/ ScanNextCode
    \/ ScanReturn
    \/ ScanAgain

ScanSpec == ScanInit /\ [][ScanNext]_vars

----------------------------------------------------------------------------
(* Properties of the pattern scan *)

\* the step has overwritten bytes of the buffer or appended a record
ScanWrote == modified_data' # modified_data \/ modifications' # modifications

(* C22: the pattern scan for one pattern records its matches left to right *)
(* without overlap: the recorded offsets are strictly increasing, any two  *)
(* consecutive recorded offsets of a pattern differ by at least the        *)
(* pattern length, each recorded offset is the first occurrence of the     *)
(* pattern at or after the cursor at that moment, and exactly one          *)
(* Modification is recorded per overwritten match.                         *)
C22_ScanOrder ==
    [][ (pc = "scan" /\ ScanWrote) =>
            LET n == Len(modifications)
                m == modifications'[n + 1]
                pattern == dtc_patterns[m.code]
            IN  /\ Len(modifications') = n + 1
                /\ SubSeq(modifications', 1, n) = modifications
                /\ m.code = ScanCode
                /\ m.address >= scan.offset
                /\ MatchAt(modified_data, pattern, m.address)
                /\ \A j \in scan.offset .. (m.address - 1) :
                      ~MatchAt(modified_data, pattern, j)
                /\ modified_data' = Put(modified_data, m.address, Zeros(Len(pattern)))
                /\ scan'.offset = m.address + Len(pattern)
                /\ \A k \in 1..n :
                      modifications[k].code = m.code =>
                          modifications[k].address + Len(pattern) <= m.address
      ]_vars

\* two matches of one pattern were recorded, the second right after the first
C22_Witness ==
    /\ pc = "returned"
    /\ calls = 1
    /\ file = <<4, 32, 4, 32>>
    /\ Len(modifications) = 2
    /\ modifications[1].address = 0 /\ modifications[2].address = 2
    /\ modifications[1].code = "P0420" /\ modifications[2].code = "P0420"
    /\ modified_data = <<0, 0, 0, 0>>

\* no code of the list has a pattern that occurs in buffer d
NoOccurrence(d, dtc_list) ==
    \A i \in 1..Len(dtc_list) :
        dtc_list[i] \in DOMAIN dtc_patterns =>
            Occurrences(d, dtc_patterns[dtc_list[i]]) = {}

(* C23: a removal whose pattern does not occur in the image, or whose code *)
(* has no known pattern, is not an error: it records zero modifications,   *)
(* leaves every byte of the image unchanged, and the patch continues with  *)
(* the next step.                                                          *)
C23_PatternNotFound ==
    [][ (pc = "dtc" /\ req.remove_dtc_codes # <<>>
           /\ NoOccurrence(modified_data, req.remove_dtc_codes)) =>
            /\ pc' = "write"
            /\ err' = "none"
            /\ modified_data' = modified_data
            /\ modifications' = modifications
            /\ executed' = Append(executed, "dtc")
      ]_vars

\* the removal of P0420 has run on a whole image without the pattern, and the write follows
C23_Witness ==
    /\ pc = "write"
    /\ err = "none"
    /\ req.remove_dtc_codes = <<"P0420">>
    /\ Len(file) = FullLen
    /\ executed # <<>> /\ executed[Len(executed)] = "dtc"
    /\ Occurrences(modified_data, dtc_patterns.P0420) = {}
    /\ ModsOf("dtc_removal") = {}

----------------------------------------------------------------------------
(* Properties of the report *)

\* the steps that check start + size against the length of the buffer
BoundedSteps == {"boost", "fuel", "timing", "torque", "dpf", "egr"}

\* those of them this call has run on a region that ends beyond the image
SkippedSteps ==
    {st \in BoundedSteps :
        /\ \E i \in 1..Len(executed) : executed[i] = st
        /\ ~InBounds(RegionOfStep[st], file)}

\* the record types of the changes the steps make
ModTypes ==
    {"boost_pressure", "fuel_injection", "ignition_timing", "torque_limiter",
     "rpm_limiter", "speed_limiter", "dpf_removal", "egr_removal", "dtc_removal"}

(* The notes of the report on the region of a step.  Beside the stage, the *)
(* two sizes, checksum_updated and the description of the stage, the       *)
(* report holds the list modifications: a note on a region is an entry of  *)
(* that list at an offset of the region that is not the record of a change.*)
NotesOn(st) ==
    {k \in 1..Len(modifications) :
        /\ modifications[k].type \notin ModTypes
        /\ modifications[k].address \in Offsets(RegionOfStep[st])}

(* C24: when a region is skipped because start+length exceeds the image    *)
(* length, the returned report contains a note recording that this region  *)
(* was skipped, one per skipped region, while the patch still succeeds.    *)
C24_SkipNote ==
    pc = "done" =>
        /\ report.returned
        /\ \A st \in SkippedSteps : Cardinality(NotesOn(st)) = 1

\* the value-transform step st of this call is requested
Requested(st) == st = "torque" => Options(req).remove_torque_limiter

\* the field width of a value-transform step
WidthOf(st) == IF st = "timing" THEN 1 ELSE 2

(* C25: the modification list is append-only and complete: a               *)
(* value-transform step over an in-bounds region appends exactly one       *)
(* Modification per field (length/2 for 16-bit regions, length for the     *)
(* 8-bit timing region) in ascending address order, each pattern match     *)
(* appends exactly one, and no step removes, reorders or rewrites a        *)
(* Modification appended by an earlier step.                               *)
C25_AppendOnly ==
    [][ /\ pc \notin {"done", "start"} =>
              /\ Len(modifications') >= Len(modifications)
              /\ SubSeq(modifications', 1, Len(modifications)) = modifications
        /\ \A st \in ValueSteps :
              (pc = st /\ Requested(st) /\ InBounds(RegionOfStep[st], modified_data)) =>
                  /\ Len(NewMods) = RegionOfStep[st].size \div WidthOf(st)
                  /\ \A k \in 1..Len(NewMods) :
                        NewMods[k].address = RegionOfStep[st].start + (k - 1) * WidthOf(st)
        /\ (pc = "dtc" /\ pc' = "write") =>
              /\ \A k, l \in 1..Len(NewMods) :
                    (k < l /\ NewMods[k].code = NewMods[l].code) =>
                        NewMods[k].address < NewMods[l].address
              /\ \A i \in 1..Len(modified_data) :
                    modified_data'[i] # modified_data[i] => (i - 1) \in Covered(NewMods)
      ]_vars

----------------------------------------------------------------------------
(* The tuning call with the loops of remove_dtc_codes taken one turn per   *)
(* step: the steps of the call up to the DTC removal are those of Spec,    *)
(* the removal is entered, scanned by ScanMatch and ScanNextCode, and left *)
(* for the write of the tuned file.  The request handler is a coroutine    *)
(* the event loop runs to its end: a step that can be taken is taken.      *)

\* if tuning_request.remove_dtc_codes: the bytearray is made and the method entered
DtcEnter ==
    /\ pc = "dtc"
    /\ IF req.remove_dtc_codes # <<>>
       THEN /\ pc' = "scan"
            /\ scan' = ScanStart
            /\ UNCHANGED <<file, req, modified_data, modifications, err, failed_at,
                           report, tuned_file, backups, calls, executed, engine, tasks,
                           comparisons>>
       ELSE Skip("write")

\* the for loop ends and starts again with the first code
DtcReturn_Rescans ==
    /\ pc = "scan"
    /\ scan.dtc_code > Len(ScanList)
    /\ scan' = ScanStart
    /\ UNCHANGED <<file, req, pc, modified_data, modifications, err, failed_at, report,
                   tuned_file, backups, calls, executed, engine, tasks, comparisons>>

\* the method returns; modifications.extend(dtc_mods), tuned_data = bytes(...)
DtcReturn ==
    /\ pc = "scan"
    /\ scan.dtc_code > Len(ScanList)
    /\ pc' = "write"
    /\ scan' = NoScan
    /\ executed' = Append(executed, "dtc")
    /\ UNCHANGED <<file, req, modified_data, modifications, err, failed_at, report,
                   tuned_file, backups, calls, engine, tasks, comparisons>>

\* the steps of one call
LiveNext ==
    \/ PerformTuning
    \/ ApplyStageTuning
    \/ ModifyBoost
    \/ ModifyFuel
    \/ ModifyTiming
    \/ RemoveTorqueLimiter
    \/ ModifyRpmLimiter
    \/ RemoveSpeedLimiter
    \/ UpdateChecksum
    \/ RemoveDpf
    \/ RemoveEgr
    \/ DtcEnter
    \/ ScanMatch
    \/ ScanNextCode
    \/ DtcReturn
    \/ WriteTuned

LiveSpec == Init /\ [][LiveNext]_vars /\ WF_vars(LiveNext)

\* the place of each position of the call in its one pass
PcRank ==
    [ start |-> 0, engine |-> 1, boost |-> 2, fuel |-> 3, timing |-> 4, torque |-> 5,
      rpm |-> 6, speed |-> 7, checksum |-> 8, dpf |-> 9, egr |-> 10, dtc |-> 11,
      scan |-> 12, write |-> 13, done |-> 14, failed |-> 14 ]

\* the call has ended
CallEnded == pc \in {"done", "failed"}

\* a step of the call goes forward, a turn of the scan moves its cursor on
Forward ==
    /\ pc' # pc => PcRank[pc'] > PcRank[pc]
    /\ (pc = "scan" /\ pc' = "scan") =>
          \/ scan'.dtc_code > scan.dtc_code
          \/ /\ scan'.dtc_code = scan.dtc_code
             /\ scan'.offset > scan.offset
             /\ Len(modifications') = Len(modifications) + 1

\* the loop variables of a scan stay within the list and the buffer
ScanBounded ==
    pc = "scan" =>
        /\ scan.dtc_code \in 1 .. (Len(ScanList) + 1)
        /\ scan.offset \in 0 .. Len(modified_data)

(* C26: every patch call terminates: the orchestrator is a single forward  *)
(* pass that never returns to an earlier step, and each pattern scan ends  *)
(* because its cursor strictly increases on every match, so from start the *)
(* call eventually reaches done or a failure, for every image and every    *)
(* DTC list.                                                               *)
C26_Terminates ==
    /\ [][Forward]_vars
    /\ []ScanBounded
    /\ (pc = "start") ~> CallEnded

\* a call that scanned a whole image for two codes and zeroed a match has ended
C26_Witness ==
    /\ pc = "done"
    /\ Len(file) = FullLen
    /\ Len(req.remove_dtc_codes) = 2
    /\ executed[Len(executed)] = "dtc"
    /\ ModsOf("dtc_removal") # {}
    /\ tuned_file.written

----------------------------------------------------------------------------
(* Properties of the image after the removals *)

(* C27: after DTC removal completes for a list of codes, the image         *)
(* contains no occurrence of the byte pattern of any code in the list:     *)
(* every occurrence is found (one that ends at the last byte of the image  *)
(* included) and zero-filling a match never leaves or creates an           *)
(* occurrence of the same or another listed code's pattern (P0300 = 03 00  *)
(* next to a zeroed span), so repeating the removal with the same list     *)
(* records zero modifications.                                             *)
C27_NoneLeft ==
    pc = "returned" =>
        /\ NoOccurrence(modified_data, ScanList)
        /\ calls > 1 => modifications = <<>>

\* the records of the DTC removal of this call
DtcRecords(ms) == SelectSeq(ms, LAMBDA m : m.type = "dtc_removal")

\* the last n offsets of buffer d
Trailer(d, n) == Max(Len(d) - n, 0) .. (Len(d) - 1)

(* The offsets a call may have changed: what the steps it was asked for    *)
(* and has run may write, the spans of the DTC patterns it has matched,    *)
(* and the last 4 bytes of the buffer d it hands back.                     *)
MayChange(steps, ms, d) ==
    UNION { Written(steps[i]) : i \in {j \in 1..Len(steps) :
                                          steps[j] \notin {"checksum", "dtc"}} }
        \cup Covered(DtcRecords(ms))
        \cup Trailer(d, 4)

(* C28: a patch changes only what was requested: a byte of the returned    *)
(* image differs from the input only if it lies in the region of a         *)
(* requested and executed step, inside a matched pattern span of a         *)
(* requested removal, or in the last 4 bytes; every other byte is          *)
(* unchanged, and the checksum step itself changes no byte outside the     *)
(* last 4.                                                                 *)
C28_Frame ==
    [][ /\ pc' = "done" =>
              \A i \in 1..Len(tuned_file'.data) :
                  (i > Len(file) \/ tuned_file'.data[i] # file[i]) =>
                      (i - 1) \in MayChange(executed', modifications', tuned_file'.data)
        /\ pc = "checksum" =>
              \A i \in 1..Len(modified_data) :
                  (i - 1) \notin Trailer(modified_data, 4) =>
                      modified_data'[i] = modified_data[i]
      ]_vars

(* a call without torque, rpm and speed step has zeroed the DPF region and *)
(* left the limiter and torque bytes of a whole image as they were         *)
C28_Witness ==
    /\ pc = "done"
    /\ Len(file) = FullLen
    /\ req.remove_dpf
    /\ ~Options(req).remove_torque_limiter
    /\ ~Truthy(Options(req).rpm_limiter)
    /\ ~Options(req).remove_speed_limiter
    /\ \E o \in Offsets(map_addresses.dpf_data) : Returned[o + 1] # file[o + 1]
    /\ \E o \in Offsets(map_addresses.boost_map) : Returned[o + 1] # file[o + 1]
    /\ \A o \in Offsets(map_addresses.limiter_map) \cup Offsets(map_addresses.torque_limiter) :
          Returned[o + 1] = file[o + 1]

\* the rpm_limiter records of the call
RpmRecords == SelectSeq(modifications, LAMBDA m : m.type = "rpm_limiter")

\* the request carries the key rpm_limiter in its custom_parameters
CarriesRpm ==
    /\ req.custom_parameters.present
    /\ "rpm_limiter" \in req.custom_parameters.keys

\* the 2 bytes of the rpm limiter lie in the image, before its last 4 bytes
RpmSlotClear == map_addresses.limiter_map.start + 2 <= Len(file) - 4

(* C29: whenever the request carries an rpm limit, for every value in      *)
(* 0..65535 (0 included), and the 2 limiter bytes are inside the image and *)
(* clear of the last 4 bytes, the rpm step runs, the two bytes hold the    *)
(* big-endian encoding of the limit in the returned image, and one         *)
(* rpm_limiter record with the previous value is made; the step is skipped *)
(* only when the request carries no rpm limit.                             *)
C29_RpmLimiter ==
    pc = "done" =>
        /\ (CarriesRpm /\ req.custom_parameters.rpm_limiter \in 0..65535
                /\ RpmSlotClear) =>
              /\ TimesRun(executed, "rpm") = 1
              /\ UnpackH(Returned, map_addresses.limiter_map.start)
                    = req.custom_parameters.rpm_limiter
              /\ Len(RpmRecords) = 1
              /\ RpmRecords[1].original
                    = UnpackH(file, map_addresses.limiter_map.start)
              /\ RpmRecords[1].modified = req.custom_parameters.rpm_limiter
        /\ TimesRun(executed, "rpm") = 0 => ~CarriesRpm

\* the engine has refused the stage of the request
UnknownStage == pc = "failed" /\ failed_at = "engine" /\ err = "ValueError"

(* C30: the stage is optional: a request without stage that asks only for  *)
(* steps that do not depend on a stage (rpm limit, speed limiter, DPF/EGR  *)
(* removal, DTC removal) is not rejected for its stage; the stage is       *)
(* refused only when the request names one that is not in the table.       *)
C30_StageOptional ==
    UnknownStage =>
        /\ req.stage # "None"
        /\ req.stage \notin DOMAIN stage_multipliers

====
